---- MODULE Spec2Model ----
(***************************************************************************)
(* Model of new_app.py, the F1 racing dashboard: load_csv (column          *)
(* normalisation and derived metrics), the sidebar selection, the filter   *)
(* block that builds dff, and the aggregates behind the tabs.              *)
(*                                                                         *)
(* A script run is one atomic step: Streamlit runs the whole script once   *)
(* when the page opens and again after every widget change.                *)
(*                                                                         *)
(* Values.  A cell of a DataFrame is a record [k, n, s]: k is the kind     *)
(* ("nan" missing, "num" number, "str" text, "bool" boolean), n the number *)
(* and s the text, a sequence of one-character strings.  read_csv's column *)
(* dtype inference is not modelled: a non-empty CSV cell is held as its    *)
(* text, and to_numeric / astype(str) / isin act on that text.  Numbers    *)
(* are integers (the inputs hold no decimal point).                        *)
(***************************************************************************)
EXTENDS Integers, Sequences, FiniteSets, TLC

VARIABLES
    file,           \* the CSV file at CSV_PATH: [header, rows]
    pc,             \* "start" | "ready" | "load_error"
    cache,          \* the entry st.cache_data keeps for load_csv (line 86)
    df,             \* the table load_csv returned (line 155)
    sel,            \* the sidebar widgets' values (lines 164-169)
    nreruns,        \* widget changes so far
    dff,            \* the filtered table (lines 171-177)
    d,              \* the standings copy with RaceKey (lines 267-268)
    by_driver,      \* lines 202-207
    driver_points,  \* lines 270-274
    panels          \* what each chart slot showed

vars == <<file, pc, cache, df, sel, nreruns, dff,
          d, by_driver, driver_points, panels>>

-----------------------------------------------------------------------------
(* Bounds of the model *)

MaxRows == 2        \* rows of a CSV file built from RowTemplates
MaxMissing == 2     \* optional columns missing from a CSV header
MaxReruns == 2      \* widget changes explored after the first run
MaxDrivers == 21    \* distinct drivers of the wide CSV file

-----------------------------------------------------------------------------
(* Text: Python str as a sequence of characters *)

\* The characters of the model, in code point order (Python compares str by
\* code point).
Alphabet ==
    << " ", "+", "-",
       "0", "1", "2", "3", "4", "5", "6", "7", "8", "9", ":",
       "A", "B", "C", "D", "E", "F", "G", "H", "I", "J", "K", "L", "M",
       "N", "O", "P", "Q", "R", "S", "T", "U", "V", "W", "X", "Y", "Z",
       "a", "b", "c", "d", "e", "f", "g", "h", "i", "j", "k", "l", "m",
       "n", "o", "p", "q", "r", "s", "t", "u", "v", "w", "x", "y", "z" >>

\* the place of each character in Alphabet
RankTable ==
    [c \in {Alphabet[i] : i \in 1..Len(Alphabet)} |->
        CHOOSE i \in 1..Len(Alphabet) : Alphabet[i] = c]

CharRank(c) == RankTable[c]

IsUpper(c) == CharRank(c) \in CharRank("A")..CharRank("Z")

IsDigit(c) == CharRank(c) \in CharRank("0")..CharRank("9")

\* str.lower() on one character
lower_char(c) ==
    IF IsUpper(c) THEN Alphabet[CharRank(c) - CharRank("A") + CharRank("a")] ELSE c

\* str.lower()
str_lower(t) == [i \in 1..Len(t) |-> lower_char(t[i])]

RECURSIVE lstrip(_)
lstrip(t) == IF t # <<>> /\ Head(t) = " " THEN lstrip(Tail(t)) ELSE t

RECURSIVE rstrip(_)
rstrip(t) ==
    IF t # <<>> /\ t[Len(t)] = " " THEN rstrip(SubSeq(t, 1, Len(t) - 1)) ELSE t

\* str.strip()
str_strip(t) == rstrip(lstrip(t))

\* p occurs in t as a substring
Contains(t, p) ==
    \E i \in 1..(Len(t) - Len(p) + 1) : SubSeq(t, i, i + Len(p) - 1) = p

\* The alternatives of the regular expression "ret|dnf|dsq|dns|dnc" (line 123)
DnfTokens ==
    { <<"r", "e", "t">>, <<"d", "n", "f">>, <<"d", "s", "q">>,
      <<"d", "n", "s">>, <<"d", "n", "c">> }

\* Series.str.contains("ret|dnf|dsq|dns|dnc", regex=True) on one value
str_contains(t) == \E p \in DnfTokens : Contains(t, p)

\* a < b for Python str
RECURSIVE TextLess(_, _)
TextLess(a, b) ==
    IF b = <<>> THEN FALSE
    ELSE IF a = <<>> THEN TRUE
    ELSE IF Head(a) = Head(b) THEN TextLess(Tail(a), Tail(b))
    ELSE CharRank(Head(a)) < CharRank(Head(b))

RECURSIVE DigitsValue(_)
DigitsValue(t) ==
    IF t = <<>> THEN 0
    ELSE DigitsValue(SubSeq(t, 1, Len(t) - 1)) * 10
         + (CharRank(t[Len(t)]) - CharRank("0"))

\* The integer literals to_numeric accepts: an optional sign, then digits.
IsIntText(t) ==
    LET u == IF t # <<>> /\ Head(t) \in {"+", "-"} THEN Tail(t) ELSE t
    IN  u # <<>> /\ \A i \in 1..Len(u) : IsDigit(u[i])

IntValue(t) ==
    IF Head(t) = "-" THEN 0 - DigitsValue(Tail(t))
    ELSE IF Head(t) = "+" THEN DigitsValue(Tail(t))
    ELSE DigitsValue(t)

RECURSIVE NatText(_)
NatText(n) ==
    IF n < 10 THEN <<Alphabet[CharRank("0") + n]>>
    ELSE Append(NatText(n \div 10), Alphabet[CharRank("0") + (n % 10)])

\* str(n) of an integer
IntText(n) == IF n < 0 THEN <<"-">> \o NatText(0 - n) ELSE NatText(n)

-----------------------------------------------------------------------------
(* Cells *)

NaN == [k |-> "nan", n |-> 0, s |-> <<>>]

Num(x) == [k |-> "num", n |-> x, s |-> <<>>]

Str(t) == [k |-> "str", n |-> 0, s |-> t]

Bool(b) == [k |-> "bool", n |-> IF b THEN 1 ELSE 0, s |-> <<>>]

\* the number a text stands for, NaN when it stands for none
ParseInt(t) == IF IsIntText(t) THEN Num(IntValue(t)) ELSE NaN

\* pd.isna / Series.isna on one value
isna(c) == c.k = "nan"

\* Series.notna on one value
notna(c) == ~isna(c)

\* pd.to_numeric(..., errors="coerce") on one value: what does not parse
\* becomes NaN.
to_numeric(c) ==
    IF c.k = "num" THEN c
    ELSE IF c.k = "str" THEN ParseInt(str_strip(c.s))
    ELSE NaN

\* Series.astype(str) on one value: a missing value becomes the text "nan".
astype_str(c) ==
    IF c.k = "str" THEN c.s
    ELSE IF c.k = "num" THEN IntText(c.n)
    ELSE IF c.k = "bool" THEN (IF c.n = 1 THEN <<"T", "r", "u", "e">>
                                ELSE <<"F", "a", "l", "s", "e">>)
    ELSE <<"n", "a", "n">>

\* Series.fillna(0) on one value
fillna0(c) == IF isna(c) THEN Num(0) ELSE c

\* a - b on float columns: NaN if either operand is NaN
Minus(a, b) == IF isna(a) \/ isna(b) THEN NaN ELSE Num(a.n - b.n)

-----------------------------------------------------------------------------
(* Tables: a DataFrame is [cols, rows], each row a function on cols *)

EmptyTable == [cols |-> {}, rows |-> <<>>]

HasCol(t, c) == c \in t.cols

\* df[c] = vals, vals holding one value per row
AssignCol(t, c, vals) ==
    [cols |-> t.cols \cup {c},
     rows |-> [i \in 1..Len(t.rows) |->
                 [k \in t.cols \cup {c} |->
                     IF k = c THEN vals[i] ELSE t.rows[i][k]]]]

\* the rows from the i-th on whose entry of mask is TRUE, in order
RECURSIVE Masked(_, _, _)
Masked(rows, mask, i) ==
    IF i > Len(rows) THEN <<>>
    ELSE (IF mask[i] THEN <<rows[i]>> ELSE <<>>) \o Masked(rows, mask, i + 1)

\* df[mask], mask holding one boolean per row
Keep(t, mask) == [cols |-> t.cols, rows |-> Masked(t.rows, mask, 1)]

\* the values of a column, as a set
ColValues(t, c) == {t.rows[i][c] : i \in 1..Len(t.rows)}

-----------------------------------------------------------------------------
(* load_csv, lines 86-133 *)

\* pd.read_csv: an empty cell is NaN, any other cell its text
read_csv(f) ==
    [cols |-> f.header,
     rows |-> [i \in 1..Len(f.rows) |->
                 [c \in f.header |->
                     IF f.rows[i][c] = <<>> THEN NaN ELSE Str(f.rows[i][c])]]]

\* line 91; "" stands for None
pos_col(t) ==
    IF HasCol(t, "Position") THEN "Position"
    ELSE IF HasCol(t, "Pos.") THEN "Pos."
    ELSE ""

\* the coalesce taking the second column first
DriverNumber_clean_SecondFirst(t, row) ==
    IF HasCol(t, "DriverNumber") /\ HasCol(t, "DriverNumber.1")
    THEN IF notna(row["DriverNumber.1"]) THEN row["DriverNumber.1"]
         ELSE row["DriverNumber"]
    ELSE IF HasCol(t, "DriverNumber") THEN row["DriverNumber"]
    ELSE IF HasCol(t, "DriverNumber.1") THEN row["DriverNumber.1"]
    ELSE NaN

\* lines 93-104
DriverNumber_clean(t, row) ==
    IF HasCol(t, "DriverNumber") /\ HasCol(t, "DriverNumber.1")
    THEN IF notna(row["DriverNumber"]) THEN row["DriverNumber"]
         ELSE row["DriverNumber.1"]
    ELSE IF HasCol(t, "DriverNumber") THEN row["DriverNumber"]
    ELSE IF HasCol(t, "DriverNumber.1") THEN row["DriverNumber.1"]
    ELSE NaN

\* lines 107-110
Pos_num(t, row) ==
    IF pos_col(t) # "" THEN to_numeric(row[pos_col(t)]) ELSE NaN

\* line 112: df.get("Grid") is None without the column, and to_numeric(None)
\* is NaN, broadcast to every row
Grid_num(t, row) ==
    IF HasCol(t, "Grid") THEN to_numeric(row["Grid"]) ELSE NaN

\* line 113 with the column present
Points(t, row) == fillna0(to_numeric(row["Points"]))

\* line 113 without the column: df.get("Points") is None, to_numeric(None) is
\* a float scalar, and a scalar has no fillna: AttributeError
PointsRaises(t) == ~HasCol(t, "Points")

\* df[c] = pd.to_numeric(df[c], errors="coerce") when c is a column
ToNumericIfPresent(t, c) ==
    IF HasCol(t, c)
    THEN AssignCol(t, c, [i \in DOMAIN t.rows |-> to_numeric(t.rows[i][c])])
    ELSE t

\* lines 115-118: converted in place, only when present
PitCols(t) ==
    ToNumericIfPresent(ToNumericIfPresent(t, "NPitstops"), "MedianPitStopDuration")

\* the heuristic matching the status text without lower-casing it
IsDNF_CaseSensitive(t, row) ==
    IF HasCol(t, "Time/Retired")
    THEN isna(row["Pos_num"])
         \/ str_contains(astype_str(row["Time/Retired"]))
    ELSE isna(row["Pos_num"])

\* lines 120-125
IsDNF(t, row) ==
    IF HasCol(t, "Time/Retired")
    THEN isna(row["Pos_num"])
         \/ str_contains(str_lower(astype_str(row["Time/Retired"])))
    ELSE isna(row["Pos_num"])

\* the difference with a missing operand taken as zero
PosGain_FillZero(t, row) == Num(row["Grid_num"].n - row["Pos_num"].n)

\* line 127
PosGain(t, row) == Minus(row["Grid_num"], row["Pos_num"])

\* line 131: df[c] = df[c].astype(str).str.strip() when c is a column
StripIfPresent(t, c) ==
    IF HasCol(t, c)
    THEN AssignCol(t, c, [i \in DOMAIN t.rows |->
                            Str(str_strip(astype_str(t.rows[i][c])))])
    ELSE t

\* lines 129-131
StripCols(t) == StripIfPresent(StripIfPresent(t, "Driver"), "Constructor")

\* df["DriverNumber_clean"] = ..., lines 98-104
Set_DriverNumber_clean(t) ==
    AssignCol(t, "DriverNumber_clean",
              [i \in DOMAIN t.rows |-> DriverNumber_clean(t, t.rows[i])])

\* df["Pos_num"] = ..., lines 108-110
Set_Pos_num(t) ==
    AssignCol(t, "Pos_num", [i \in DOMAIN t.rows |-> Pos_num(t, t.rows[i])])

\* df["Grid_num"] = ..., line 112
Set_Grid_num(t) ==
    AssignCol(t, "Grid_num", [i \in DOMAIN t.rows |-> Grid_num(t, t.rows[i])])

\* df["Points"] = ..., line 113
Set_Points(t) ==
    AssignCol(t, "Points", [i \in DOMAIN t.rows |-> Points(t, t.rows[i])])

\* df["IsDNF"] = ..., lines 123-125
Set_IsDNF(t) ==
    AssignCol(t, "IsDNF", [i \in DOMAIN t.rows |-> Bool(IsDNF(t, t.rows[i]))])

\* df["PosGain"] = ..., line 127
Set_PosGain(t) ==
    AssignCol(t, "PosGain", [i \in DOMAIN t.rows |-> PosGain(t, t.rows[i])])

\* lines 93-127, column by column in the order of the code
Derive(t) ==
    Set_PosGain(
      Set_IsDNF(
        PitCols(
          Set_Points(
            Set_Grid_num(
              Set_Pos_num(
                Set_DriverNumber_clean(t)))))))

\* load_csv: [raised, df]
load_csv(f) ==
    IF PointsRaises(read_csv(f))
    THEN [raised |-> TRUE, df |-> EmptyTable]
    ELSE [raised |-> FALSE, df |-> StripCols(Derive(read_csv(f)))]

-----------------------------------------------------------------------------
(* The sidebar, lines 158-169 *)

\* sorted(df[c].dropna().unique().tolist()), as a set; [] without the column
\* for the two guarded lists (lines 160-161)
Options(t, c) ==
    IF HasCol(t, c) THEN {v \in ColValues(t, c) : notna(v)} ELSE {}

\* max(seasons)
MaxOf(S) == CHOOSE m \in S : \A x \in S : ~TextLess(m.s, x.s)

\* the first n of sorted(S)
FirstN(S, n) == {x \in S : Cardinality({y \in S : TextLess(y.s, x.s)}) < n}

\* line 167: the default of the driver multiselect shows the first 10
DefaultDriverCount == 10

\* the defaults of the widgets, lines 164-169
DefaultSel(t) ==
    LET seasons == Options(t, "Season")
        drivers == Options(t, "Driver")
    IN  [seasons |-> IF seasons # {} THEN {MaxOf(seasons)} ELSE {},
         races   |-> Options(t, "RaceNumber"),
         teams   |-> Options(t, "Constructor"),
         drivers |-> IF Cardinality(drivers) > DefaultDriverCount
                     THEN FirstN(drivers, DefaultDriverCount) ELSE drivers,
         include_dnfs |-> TRUE,
         only_points  |-> FALSE]

-----------------------------------------------------------------------------
(* The filter block, lines 171-177 *)

FilterSteps == {"seasons", "races", "teams", "drivers", "dnfs", "points"}

\* the conditions with the DNF toggle read the wrong way round
StepApplies_DnfsInverted(step, t, s) ==
    CASE step = "seasons" -> s.seasons # {}
      [] step = "races"   -> s.races # {}
      [] step = "teams"   -> s.teams # {} /\ HasCol(t, "Constructor")
      [] step = "drivers" -> s.drivers # {} /\ HasCol(t, "Driver")
      [] step = "dnfs"    -> s.include_dnfs
      [] step = "points"  -> s.only_points

\* the condition of each `if` of lines 172-177
StepApplies(step, t, s) ==
    CASE step = "seasons" -> s.seasons # {}
      [] step = "races"   -> s.races # {}
      [] step = "teams"   -> s.teams # {} /\ HasCol(t, "Constructor")
      [] step = "drivers" -> s.drivers # {} /\ HasCol(t, "Driver")
      [] step = "dnfs"    -> ~s.include_dnfs
      [] step = "points"  -> s.only_points

\* the mask of each line, on one row
StepMask(step, s, row) ==
    CASE step = "seasons" -> row["Season"] \in s.seasons
      [] step = "races"   -> row["RaceNumber"] \in s.races
      [] step = "teams"   -> row["Constructor"] \in s.teams
      [] step = "drivers" -> row["Driver"] \in s.drivers
      [] step = "dnfs"    -> row["IsDNF"] # Bool(TRUE)
      [] step = "points"  -> row["Points"].n > 0

\* the same line filtering the base table instead of the running dff
FilterStepFromBase(step, t, s) ==
    IF StepApplies(step, t, s)
    THEN Keep(df, [i \in DOMAIN df.rows |-> StepMask(step, s, df.rows[i])])
    ELSE t

\* one line of 172-177: dff = dff[mask] when its condition holds
FilterStep(step, t, s) ==
    IF StepApplies(step, t, s)
    THEN Keep(t, [i \in DOMAIN t.rows |-> StepMask(step, s, t.rows[i])])
    ELSE t

\* lines 172-177 in the order of the code
filter_block(t, s) ==
    FilterStep("points",
      FilterStep("dnfs",
        FilterStep("drivers",
          FilterStep("teams",
            FilterStep("races",
              FilterStep("seasons", t, s), s), s), s), s), s)

\* some line of 172-177 rebinds dff to a new DataFrame
AnyStepApplies(t, s) == \E step \in FilterSteps : StepApplies(step, t, s)

-----------------------------------------------------------------------------
(* The aggregates, lines 179-321 *)

Min(a, b) == IF a < b THEN a ELSE b

\* DataFrame.head(n)
head(q, n) == SubSeq(q, 1, Min(n, Len(q)))

\* DataFrame.dropna(subset=cs): the rows with every column of cs present
dropna(t, cs) ==
    Keep(t, [i \in DOMAIN t.rows |-> \A c \in cs : notna(t.rows[i][c])])

RECURSIVE SumPoints(_)
SumPoints(rows) ==
    IF rows = <<>> THEN 0
    ELSE rows[1]["Points"].n + SumPoints(Tail(rows))

\* line 184
kpi_points(t) == SumPoints(t.rows)

RECURSIVE InsertKey(_, _)
InsertKey(x, q) ==
    IF q # <<>> /\ TextLess(Head(q).s, x.s)
    THEN <<Head(q)>> \o InsertKey(x, Tail(q))
    ELSE <<x>> \o q

\* the keys of a groupby on one text column, sorted
RECURSIVE SortedKeys(_)
SortedKeys(S) ==
    IF S = {} THEN <<>>
    ELSE LET x == CHOOSE y \in S : TRUE
         IN  InsertKey(x, SortedKeys(S \ {x}))

\* the same groupby taking each driver's first row instead of the sum
GroupSumByDriverKeepFirst(t) ==
    LET keys == SortedKeys(Options(t, "Driver"))
    IN  [i \in 1..Len(keys) |->
           [Driver |-> keys[i],
            Points |-> LET j == CHOOSE j \in 1..Len(t.rows) :
                               /\ t.rows[j]["Driver"] = keys[i]
                               /\ \A l \in 1..(j - 1) :
                                      t.rows[l]["Driver"] # keys[i]
                       IN  t.rows[j]["Points"].n]]

GroupSumByDriver(t) ==
    LET keys == SortedKeys(Options(t, "Driver"))
    IN  [i \in 1..Len(keys) |->
           [Driver |-> keys[i],
            Points |-> SumPoints(
                SelectSeq(t.rows, LAMBDA row : row["Driver"] = keys[i]))]]

RECURSIVE InsertByPointsDesc(_, _)
InsertByPointsDesc(x, q) ==
    IF q # <<>> /\ Head(q).Points > x.Points
    THEN <<Head(q)>> \o InsertByPointsDesc(x, Tail(q))
    ELSE <<x>> \o q

\* sort_values("Points", ascending=False): ties keep their order
RECURSIVE SortByPointsDesc(_)
SortByPointsDesc(q) ==
    IF q = <<>> THEN <<>>
    ELSE InsertByPointsDesc(Head(q), SortByPointsDesc(Tail(q)))

\* line 206
TopDrivers == 20

\* lines 202-207
ByDriver(t) == head(SortByPointsDesc(GroupSumByDriver(t)), TopDrivers)

\* line 268
RaceKey(t, row) == to_numeric(row["RaceNumber"])

\* (Season, RaceKey, Driver) order of two group rows
GroupLess(a, b) ==
    \/ TextLess(a.Season.s, b.Season.s)
    \/ /\ a.Season = b.Season
       /\ \/ a.RaceKey.n < b.RaceKey.n
          \/ /\ a.RaceKey = b.RaceKey
             /\ TextLess(a.Driver.s, b.Driver.s)

RECURSIVE InsertGroup(_, _)
InsertGroup(x, q) ==
    IF q # <<>> /\ GroupLess(Head(q), x)
    THEN <<Head(q)>> \o InsertGroup(x, Tail(q))
    ELSE <<x>> \o q

\* the keys of the groupby of line 271, sorted
RECURSIVE SortedGroups(_)
SortedGroups(S) ==
    IF S = {} THEN <<>>
    ELSE LET x == CHOOSE y \in S : TRUE
         IN  InsertGroup(x, SortedGroups(S \ {x}))

\* d.groupby(["Season", "RaceKey", "Driver"], as_index=False)["Points"].sum(),
\* line 271: one row per key in key order, rows with a missing key dropped
GroupSumByRace(t) ==
    LET full == SelectSeq(t.rows, LAMBDA row :
                    notna(row["Season"]) /\ notna(row["RaceKey"])
                    /\ notna(row["Driver"]))
        keys == {[Season |-> full[i]["Season"], RaceKey |-> full[i]["RaceKey"],
                  Driver |-> full[i]["Driver"]] : i \in 1..Len(full)}
        q == SortedGroups(keys)
    IN  [i \in 1..Len(q) |->
           [Season |-> q[i].Season, RaceKey |-> q[i].RaceKey,
            Driver |-> q[i].Driver,
            Points |-> SumPoints(SelectSeq(full, LAMBDA row :
                            /\ row["Season"] = q[i].Season
                            /\ row["RaceKey"] = q[i].RaceKey
                            /\ row["Driver"] = q[i].Driver))]]

\* a comes before b by (Season, RaceKey)
SeasonRaceLess(a, b) ==
    \/ TextLess(a.Season.s, b.Season.s)
    \/ a.Season = b.Season /\ a.RaceKey.n < b.RaceKey.n

RECURSIVE InsertBySeasonRaceDesc(_, _)
InsertBySeasonRaceDesc(x, q) ==
    IF q # <<>> /\ SeasonRaceLess(x, Head(q))
    THEN <<Head(q)>> \o InsertBySeasonRaceDesc(x, Tail(q))
    ELSE <<x>> \o q

\* the rows sorted by (Season, RaceKey) descending
RECURSIVE SortBySeasonRaceDesc(_)
SortBySeasonRaceDesc(q) ==
    IF q = <<>> THEN <<>>
    ELSE InsertBySeasonRaceDesc(Head(q), SortBySeasonRaceDesc(Tail(q)))

RECURSIVE InsertBySeasonRace(_, _)
InsertBySeasonRace(x, q) ==
    IF q # <<>> /\ SeasonRaceLess(Head(q), x)
    THEN <<Head(q)>> \o InsertBySeasonRace(x, Tail(q))
    ELSE <<x>> \o q

\* .sort_values(["Season", "RaceKey"]), line 272: ascending, ties keep their
\* order
RECURSIVE SortBySeasonRace(_)
SortBySeasonRace(q) ==
    IF q = <<>> THEN <<>>
    ELSE InsertBySeasonRace(Head(q), SortBySeasonRace(Tail(q)))

RECURSIVE SumField(_)
SumField(q) == IF q = <<>> THEN 0 ELSE q[1].Points + SumField(Tail(q))

\* groupby(["Season", "Driver"])["Points"].cumsum(), line 274
CumPoints(q, i) ==
    SumField(SelectSeq(SubSeq(q, 1, i), LAMBDA r :
                 r.Season = q[i].Season /\ r.Driver = q[i].Driver))

\* lines 270-274
DriverPoints(t) ==
    LET q == SortBySeasonRace(GroupSumByRace(t))
    IN  [i \in 1..Len(q) |->
           [Season |-> q[i].Season, RaceKey |-> q[i].RaceKey,
            Driver |-> q[i].Driver, Points |-> q[i].Points,
            CumPoints |-> CumPoints(q, i)]]

-----------------------------------------------------------------------------
(* One run of the script, lines 155-328 *)

\* The DataFrame objects of a run: df, df.copy() (line 171), the result of
\* the boolean indexing (lines 172-177) and dff.copy() (line 267).
Refs == {"df", "copy1", "masked", "copy2"}

\* DataFrame.copy() returning the object it was called on
copy_alias(src, fresh) == src

\* DataFrame.copy(): a new object, here the reference it is stored under
copy(src, fresh) == fresh

\* the columns px.scatter names, lines 221-228 and 312-319
ScatterCols == {"Constructor", "Driver", "Season", "RaceNumber", "Points", "Time/Retired"}

\* a slot after one that raised is never reached
Stopped(prev) == prev \in {"error", "skipped"}

\* What each chart slot shows: "chart" (st.plotly_chart), "info" (st.info),
\* "error" (the line raised and the run ended) or "skipped" (after an error).
\* t is dff. groupby on an absent column raises KeyError, a px call naming
\* an absent column raises ValueError.
Panels(t) ==
    LET o_by_driver == IF ~HasCol(t, "Driver") THEN "error" ELSE "chart"
        scat == dropna(t, {"Grid_num", "Pos_num"})
        o_scat ==
            IF Stopped(o_by_driver) THEN "skipped"
            ELSE IF Len(scat.rows) = 0 THEN "info"
            ELSE IF ~(ScatterCols \subseteq t.cols) THEN "error"
            ELSE "chart"
        tmp == dropna(t, {"PosGain"})
        o_posgain ==
            IF Stopped(o_scat) THEN "skipped"
            ELSE IF Len(tmp.rows) = 0 THEN "info"
            ELSE "chart"
        o_by_team ==
            IF Stopped(o_posgain) THEN "skipped"
            ELSE IF ~HasCol(t, "Constructor") THEN "error"
            ELSE "chart"
        o_standings == IF Stopped(o_by_team) THEN "skipped" ELSE "chart"
        pit == HasCol(t, "NPitstops") /\ HasCol(t, "MedianPitStopDuration")
        o_pit_mean ==
            IF Stopped(o_standings) THEN "skipped"
            ELSE IF ~pit THEN "info"
            ELSE "chart"
        o_pit_box ==
            IF Stopped(o_pit_mean) THEN "skipped"
            ELSE IF ~pit THEN "info"
            ELSE IF Len(dropna(t, {"MedianPitStopDuration"}).rows) = 0 THEN "info"
            ELSE "chart"
        o_pit_pairs ==
            IF Stopped(o_pit_box) THEN "skipped"
            ELSE IF ~pit THEN "info"
            ELSE IF ~(ScatterCols \subseteq t.cols) THEN "error"
            ELSE "chart"
    IN  [by_driver |-> o_by_driver, scat |-> o_scat, posgain |-> o_posgain,
         by_team |-> o_by_team, standings |-> o_standings,
         pit_mean |-> o_pit_mean, pit_box |-> o_pit_box,
         pit_pairs |-> o_pit_pairs]

NoPanels ==
    [by_driver |-> "skipped", scat |-> "skipped", posgain |-> "skipped",
     by_team |-> "skipped", standings |-> "skipped", pit_mean |-> "skipped",
     pit_box |-> "skipped", pit_pairs |-> "skipped"]

\* The script from line 171 on works on DataFrame objects: e.h maps each
\* object to its content, so that a write through one name is seen through
\* every name of the same object, and e.dff and e.d are the objects the
\* names dff and d are bound to.

\* line 171: dff = df.copy()
Line171(loaded, r) ==
    [h |-> [x \in Refs |-> IF x \in {"df", r} THEN loaded ELSE EmptyTable],
     dff |-> r]

\* lines 172-177: a line whose condition holds binds dff to a new object
Lines172to177(e, s) ==
    IF AnyStepApplies(e.h[e.dff], s)
    THEN [h |-> [e.h EXCEPT !["masked"] = filter_block(e.h[e.dff], s)],
          dff |-> "masked"]
    ELSE e

\* lines 196-261 and, for the slots of tab3, lines 286-321
Tabs(e) ==
    [h |-> e.h, dff |-> e.dff,
     panels |-> Panels(e.h[e.dff]),
     by_driver |-> IF HasCol(e.h[e.dff], "Driver") THEN ByDriver(e.h[e.dff])
                   ELSE <<>>]

\* d["RaceKey"] = ..., line 268
Set_RaceKey(t) ==
    AssignCol(t, "RaceKey", [i \in DOMAIN t.rows |-> RaceKey(t, t.rows[i])])

\* lines 267-268: d = dff.copy(); d["RaceKey"] = ...
Lines267to268(e, r) ==
    [h |-> [e.h EXCEPT ![r] = Set_RaceKey(e.h[e.dff])],
     dff |-> e.dff, d |-> r, panels |-> e.panels, by_driver |-> e.by_driver]

\* what the run leaves behind
Outcome(e, reached) ==
    [df  |-> e.h["df"],
     dff |-> e.h[e.dff],
     d   |-> IF reached THEN e.h[e.d] ELSE EmptyTable,
     by_driver |-> e.by_driver,
     driver_points |-> IF reached THEN DriverPoints(e.h[e.d]) ELSE <<>>,
     panels |-> e.panels]

\* tab2 is reached unless an earlier line raised
Standings(e) ==
    IF Stopped(e.panels.standings)
    THEN Outcome(e, FALSE)
    ELSE Outcome(Lines267to268(e, copy(e.dff, "copy2")), TRUE)

\* lines 171-328 given the table load_csv returned and the widgets' values
Script(loaded, s) ==
    Standings(Tabs(Lines172to177(Line171(loaded, copy("df", "copy1")), s)))

-----------------------------------------------------------------------------
(* The CSV files the model is run on *)

RequiredCols == {"Season", "RaceNumber"}

OptionalCols ==
    {"Position", "Pos.", "DriverNumber", "DriverNumber.1", "Grid", "Points",
     "NPitstops", "MedianPitStopDuration", "Time/Retired", "Driver",
     "Constructor"}

AllCols == RequiredCols \cup OptionalCols

RawRow(season, race, driver, team, position, pos, dn, dn1, grid, points, npit, med, status) ==
    [c \in AllCols |->
        CASE c = "Season" -> season
          [] c = "RaceNumber" -> race
          [] c = "Driver" -> driver
          [] c = "Constructor" -> team
          [] c = "Position" -> position
          [] c = "Pos." -> pos
          [] c = "DriverNumber" -> dn
          [] c = "DriverNumber.1" -> dn1
          [] c = "Grid" -> grid
          [] c = "Points" -> points
          [] c = "NPitstops" -> npit
          [] c = "MedianPitStopDuration" -> med
          [] c = "Time/Retired" -> status]

Y2021 == <<"2", "0", "2", "1">>
Y2022 == <<"2", "0", "2", "2">>

\* A finisher; both identifier columns filled, with different values.
RowWinner ==
    RawRow(Y2021, <<"1">>, <<"A">>, <<"X">>, <<"1">>, <<"1">>, <<"4", "4">>,
           <<"4">>, <<"2">>, <<"1", "8">>, <<"2">>, <<"2", "3">>,
           <<"1", ":", "3", "0">>)

\* The next race of the same driver: no position, status "Retired", no
\* points, the identifier only in the second column, no pit stop.
RowRetired ==
    RawRow(Y2021, <<"2">>, <<"A">>, <<"X">>, <<>>, <<>>, <<>>, <<"4", "4">>,
           <<"1">>, <<"0">>, <<>>, <<>>,
           <<"R", "e", "t", "i", "r", "e", "d">>)

\* A third race of the same driver with a points deduction and no status.
RowPenalty ==
    RawRow(Y2021, <<"3">>, <<"A">>, <<"X">>, <<"3">>, <<>>, <<"4", "4">>,
           <<"4", "4">>, <<"5">>, <<"-", "1">>, <<"1">>, <<"2", "4">>, <<>>)

\* Position, Grid and RaceNumber that are no numbers beside a Pos. that is
\* one, no driver name, a padded team name, no points cell.
RowUnclassified ==
    RawRow(Y2021, <<"x">>, <<>>, <<"Y", " ">>, <<"N", "C">>, <<"3">>,
           <<"5">>, <<>>, <<"p", "i", "t">>, <<>>, <<"1">>, <<>>,
           <<"+", "1", " ", "L", "a", "p">>)

\* Another season: a classified position with a disqualification in upper
\* case, a padded driver name, no identifier at all.
RowDisqualified ==
    RawRow(Y2022, <<"1">>, <<" ", "B">>, <<"Y">>, <<"2">>, <<"2">>, <<>>, <<>>,
           <<"1">>, <<"1", "5">>, <<"3">>, <<"2", "5">>, <<"D", "S", "Q">>)

RowTemplates ==
    {RowWinner, RowRetired, RowPenalty, RowUnclassified, RowDisqualified}

\* the rows of the files whose header varies
HeaderRows == <<RowWinner, RowRetired>>

\* a CSV file with the columns of h
File(h, rows) ==
    [header |-> h,
     rows |-> [i \in 1..Len(rows) |-> [c \in h |-> rows[i][c]]]]

SeqsUpTo(S, n) == UNION {[1..k -> S] : k \in 0..n}

Headers ==
    {AllCols \ m : m \in {x \in SUBSET OptionalCols : Cardinality(x) <= MaxMissing}}

TemplateFiles == {File(AllCols, rows) : rows \in SeqsUpTo(RowTemplates, MaxRows)}

HeaderFiles == {File(h, HeaderRows) : h \in Headers}

\* Row i of the file of n drivers "A", "B", ...: driver k finishes race 1 in
\* position k and scores k points, but for the last driver, who retires; the
\* rows after the n-th are race 2 of the first drivers.
WideRow(i, n) ==
    LET k == ((i - 1) % n) + 1
    IN  RawRow(Y2021, NatText(((i - 1) \div n) + 1),
               <<Alphabet[CharRank("A") + k - 1]>>,
               IF k % 2 = 0 THEN <<"X">> ELSE <<"Y">>,
               IF k = n THEN <<>> ELSE NatText(k),
               IF k = n THEN <<>> ELSE NatText(k),
               NatText(k), <<>>, NatText(n + 1 - k), NatText(k), <<"2">>,
               <<"2", "3">>,
               IF k = n THEN <<"D", "N", "F">> ELSE <<"1", ":", "3", "0">>)

\* the drivers of the wide file that have a second race
WideRepeats == 2

WideFiles ==
    {File(AllCols, [i \in 1..(MaxDrivers + WideRepeats) |-> WideRow(i, MaxDrivers)])}

-----------------------------------------------------------------------------
(* The state machine *)

NoSel ==
    [seasons |-> {}, races |-> {}, teams |-> {}, drivers |-> {},
     include_dnfs |-> TRUE, only_points |-> FALSE]

Blank ==
    /\ pc = "start"
    /\ cache = EmptyTable
    /\ df = EmptyTable
    /\ sel = NoSel
    /\ nreruns = 0
    /\ dff = EmptyTable
    /\ d = EmptyTable
    /\ by_driver = <<>>
    /\ driver_points = <<>>
    /\ panels = NoPanels

Init == file \in TemplateFiles \cup HeaderFiles \cup WideFiles /\ Blank

\* lines 171-328 with the widgets at s
Leave(out) ==
    /\ df' = out.df
    /\ dff' = out.dff
    /\ d' = out.d
    /\ by_driver' = out.by_driver
    /\ driver_points' = out.driver_points
    /\ panels' = out.panels

RunScript(loaded, s) == sel' = s /\ Leave(Script(loaded, s))

\* The page is opened: load_csv runs (line 155), the widgets take their
\* defaults and the script runs to its end.  When load_csv raises, the run
\* ends at line 155 and no widget is drawn.
\* l is what load_csv did.
Opened(l) ==
    IF l.raised
    THEN /\ pc' = "load_error"
         /\ UNCHANGED <<file, cache, df, sel, nreruns, dff, d, by_driver,
                        driver_points, panels>>
    ELSE /\ pc' = "ready"
         /\ cache' = l.df
         /\ RunScript(l.df, DefaultSel(l.df))
         /\ UNCHANGED <<file, nreruns>>

FirstRun == pc = "start" /\ Opened(load_csv(file))

\* A widget takes the value in s: the script runs again, load_csv answering
\* from its cache.
Rerun(s) ==
    /\ pc = "ready"
    /\ nreruns < MaxReruns
    /\ s # sel
    /\ nreruns' = nreruns + 1
    /\ RunScript(cache, s)
    /\ UNCHANGED <<file, pc, cache>>

\* what the model picks in a multiselect: nothing, one option, or all
Picks(options) == {{}} \cup {{o} : o \in options} \cup {options}

\* line 164
SetSeasons ==
    \E S \in Picks(Options(cache, "Season")) : Rerun([sel EXCEPT !.seasons = S])

\* line 165
SetRaces ==
    \E S \in Picks(Options(cache, "RaceNumber")) : Rerun([sel EXCEPT !.races = S])

\* line 166
SetTeams ==
    \E S \in Picks(Options(cache, "Constructor")) : Rerun([sel EXCEPT !.teams = S])

\* line 167
SetDrivers ==
    \E S \in Picks(Options(cache, "Driver")) : Rerun([sel EXCEPT !.drivers = S])

\* line 168
ToggleDnfs ==
    \E v \in {~sel.include_dnfs} : Rerun([sel EXCEPT !.include_dnfs = v])

\* line 169
TogglePoints ==
    \E v \in {~sel.only_points} : Rerun([sel EXCEPT !.only_points = v])

Next ==
    \/ FirstRun
    \/ SetSeasons
    \/ SetRaces
    \/ SetTeams
    \/ SetDrivers
    \/ ToggleDnfs
    \/ TogglePoints

Spec == Init /\ [][Next]_vars

-----------------------------------------------------------------------------
(* Properties *)

Rows(t) == {t.rows[i] : i \in 1..Len(t.rows)}

\* the status text of a row holds one of the retirement tokens, whatever its
\* case; a row without status text holds none
StatusHit(row) ==
    /\ row["Time/Retired"].k = "str"
    /\ \E i \in 1..Len(row["Time/Retired"].s), p \in DnfTokens :
          /\ i + Len(p) - 1 <= Len(row["Time/Retired"].s)
          /\ \A j \in 1..Len(p) :
                lower_char(row["Time/Retired"].s[i + j - 1]) = p[j]

\* C1: in the table load_csv returns, IsDNF is true whenever Pos_num is
\* missing; with a Time/Retired column IsDNF = (Pos_num missing) or (the
\* lower-cased status text contains ret, dnf, dsq, dns or dnc), without one
\* IsDNF = (Pos_num missing).
C1_IsDNF ==
    pc = "ready" =>
        \A row \in Rows(df) :
            /\ row["Pos_num"] = NaN => row["IsDNF"] = Bool(TRUE)
            /\ row["IsDNF"] =
                 Bool(\/ row["Pos_num"] = NaN
                      \/ HasCol(df, "Time/Retired") /\ StatusHit(row))

\* a loaded row without position whose status text holds no token, and a
\* loaded row with a position whose upper-case status text holds one
C1_Witness ==
    /\ pc = "ready"
    /\ \E row \in Rows(df) :
          /\ row["Pos_num"] = NaN
          /\ HasCol(df, "Time/Retired") /\ row["Time/Retired"].k = "str"
          /\ ~StatusHit(row)
          /\ row["IsDNF"] = Bool(TRUE)
    /\ \E row \in Rows(df) :
          /\ row["Pos_num"] # NaN
          /\ HasCol(df, "Time/Retired") /\ StatusHit(row)
          /\ ~str_contains(row["Time/Retired"].s)
          /\ row["IsDNF"] = Bool(TRUE)

\* C2: in the table load_csv returns, PosGain = Grid_num - Pos_num when both
\* are present, and PosGain is missing when either is missing.
C2_PosGain ==
    pc = "ready" =>
        \A row \in Rows(df) :
            IF row["Grid_num"].k = "num" /\ row["Pos_num"].k = "num"
            THEN row["PosGain"] = Num(row["Grid_num"].n - row["Pos_num"].n)
            ELSE row["PosGain"] = NaN

\* a loaded table with a row that gained a place and a row without position
C2_Witness ==
    /\ pc = "ready"
    /\ \E row \in Rows(df) :
          /\ row["Grid_num"] = Num(2) /\ row["Pos_num"] = Num(1)
          /\ row["PosGain"] = Num(1)
    /\ \E row \in Rows(df) :
          /\ row["Grid_num"] = Num(1) /\ row["Pos_num"] = NaN
          /\ row["PosGain"] = NaN

\* the row-level predicate the six options stand for, an empty multiselect
\* imposing no restriction
Selected(row) ==
    /\ sel.seasons = {} \/ row["Season"] \in sel.seasons
    /\ sel.races = {} \/ row["RaceNumber"] \in sel.races
    /\ sel.teams = {} \/ row["Constructor"] \in sel.teams
    /\ sel.drivers = {} \/ row["Driver"] \in sel.drivers
    /\ sel.include_dnfs \/ row["IsDNF"] = Bool(FALSE)
    /\ ~sel.only_points \/ row["Points"].n > 0

\* C3: dff holds exactly the rows of the base table that satisfy every
\* option of the selection, in the order of the base table.
C3_FilterExact ==
    pc = "ready" =>
        /\ dff.rows = SelectSeq(cache.rows, Selected)
        /\ dff.cols = cache.cols

\* includeDnfs = false on a table of one DNF row and one finisher row leaves
\* only the finisher
C3_Witness ==
    /\ pc = "ready"
    /\ ~sel.include_dnfs
    /\ Len(cache.rows) = 2
    /\ cache.rows[1]["IsDNF"] = Bool(FALSE)
    /\ cache.rows[2]["IsDNF"] = Bool(TRUE)
    /\ dff.rows = <<cache.rows[1]>>

\* the distinct drivers of the filtered table
DriversOf(t) == IF HasCol(t, "Driver") THEN ColValues(t, "Driver") ELSE {}

\* C4 as stated: the point totals of by_driver add up to the sum of the
\* Points column of the filtered table.
C4_SumPreserved ==
    pc = "ready" /\ panels.by_driver = "chart" =>
        SumField(by_driver) = kpi_points(dff)

\* C4 amended: the totals of by_driver add up to the sum of the Points column
\* when the filtered table holds at most 20 distinct drivers.
C4_SumPreservedWithinTop ==
    pc = "ready" /\ panels.by_driver = "chart"
        /\ Cardinality(DriversOf(dff)) <= TopDrivers =>
            SumField(by_driver) = kpi_points(dff)

\* exactly 20 drivers, one of them with two rows, all kept by by_driver
C4_Witness ==
    /\ pc = "ready"
    /\ Cardinality(DriversOf(dff)) = TopDrivers
    /\ Len(dff.rows) > TopDrivers
    /\ Len(by_driver) = TopDrivers
    /\ SumField(by_driver) = kpi_points(dff)
    /\ kpi_points(dff) > 0

\* rows i and j of driver_points are races of one driver in one season, i the
\* earlier race
EarlierRace(i, j) ==
    /\ driver_points[i].Season = driver_points[j].Season
    /\ driver_points[i].Driver = driver_points[j].Driver
    /\ driver_points[i].RaceKey.n < driver_points[j].RaceKey.n

\* C5 as stated: within a (Season, Driver) pair CumPoints never decreases as
\* RaceNumber increases.
C5_CumNonDecreasing ==
    \A i, j \in 1..Len(driver_points) :
        EarlierRace(i, j) =>
            driver_points[i].CumPoints <= driver_points[j].CumPoints

\* C5 amended: within a (Season, Driver) pair none of whose per-race point
\* sums is negative, CumPoints never decreases as RaceNumber increases.
C5_CumNonDecreasingNonNegative ==
    \A i, j \in 1..Len(driver_points) :
        /\ EarlierRace(i, j)
        /\ \A l \in 1..Len(driver_points) :
              /\ driver_points[l].Season = driver_points[i].Season
              /\ driver_points[l].Driver = driver_points[i].Driver
              => driver_points[l].Points >= 0
        => driver_points[i].CumPoints <= driver_points[j].CumPoints

\* driver A scores 18 in race 1 of 2021 and 0 in race 2: 18 after race 2
C5_Witness ==
    /\ pc = "ready"
    /\ \E i, j \in 1..Len(driver_points) :
          /\ EarlierRace(i, j)
          /\ driver_points[i].Driver = Str(<<"A">>)
          /\ driver_points[i].Season = Str(Y2021)
          /\ driver_points[i].RaceKey = Num(1)
          /\ driver_points[i].Points = 18
          /\ driver_points[j].RaceKey = Num(2)
          /\ driver_points[j].Points = 0
          /\ driver_points[j].CumPoints = 18

\* C6: whichever optional columns the CSV lacks, load_csv and the filter
\* block run to their end.
C6_NeverRaises == pc # "load_error"

\* the rows an aggregate can use
Usable(slot) ==
    CASE slot \in {"by_driver", "by_team"} -> Len(dff.rows)
      [] slot = "scat" -> Len(dropna(dff, {"Grid_num", "Pos_num"}).rows)
      [] slot = "posgain" -> Len(dropna(dff, {"PosGain"}).rows)
      [] slot = "standings" -> Len(driver_points)
      [] slot = "pit_mean" ->
            IF HasCol(dff, "NPitstops")
            THEN Len(dropna(dff, {"NPitstops"}).rows) ELSE 0
      [] slot = "pit_box" ->
            IF HasCol(dff, "MedianPitStopDuration")
            THEN Len(dropna(dff, {"MedianPitStopDuration"}).rows) ELSE 0
      [] slot = "pit_pairs" ->
            IF HasCol(dff, "NPitstops") /\ HasCol(dff, "MedianPitStopDuration")
            THEN Len(dropna(dff, {"NPitstops", "MedianPitStopDuration"}).rows)
            ELSE 0

\* C7: an aggregate with no usable row reports "insufficient data" instead of
\* drawing a chart or failing.
C7_InsufficientData ==
    pc = "ready" =>
        \A slot \in DOMAIN panels : Usable(slot) = 0 => panels[slot] = "info"

ActiveSteps == {step \in FilterSteps : StepApplies(step, cache, sel)}

\* the tables reached from the base table by k different active lines of the
\* filter block taken in any order, each with the lines taken
RECURSIVE Orders(_)
Orders(k) ==
    IF k = 0 THEN {[done |-> {}, t |-> cache]}
    ELSE UNION {{[done |-> x.done \cup {step},
                  t |-> FilterStep(step, x.t, sel)] :
                    step \in ActiveSteps \ x.done} : x \in Orders(k - 1)}

\* C9: teams then drivers gives the rows of drivers then teams, and the
\* lines of the filter block taken in any order give the rows of dff.
C9_Commutes ==
    pc = "ready" =>
        /\ FilterStep("drivers", FilterStep("teams", cache, sel), sel).rows
             = FilterStep("teams", FilterStep("drivers", cache, sel), sel).rows
        /\ \A x \in Orders(Cardinality(ActiveSteps)) : x.t.rows = dff.rows

\* the teams line and the drivers line each drop a row the other keeps
C9_Witness ==
    /\ pc = "ready"
    /\ sel.teams # {} /\ sel.drivers # {}
    /\ \E r1, r2 \in Rows(cache) :
          /\ r1["Constructor"] \in sel.teams /\ r1["Driver"] \notin sel.drivers
          /\ r2["Constructor"] \notin sel.teams /\ r2["Driver"] \in sel.drivers
    /\ \A x \in Orders(Cardinality(ActiveSteps)) : x.t.rows = dff.rows

\* C10: after every run df is the table load_csv returned: the filter block
\* and the standings step with its RaceKey column work on other objects.
C10_BaseUnchanged == pc = "ready" => df = cache

\* a run after a widget change that filtered rows out and added RaceKey to d
C10_Witness ==
    /\ pc = "ready"
    /\ nreruns > 0
    /\ Len(dff.rows) < Len(df.rows)
    /\ Len(d.rows) > 0
    /\ HasCol(d, "RaceKey")
    /\ ~HasCol(df, "RaceKey")

====
